---- MODULE Spec2Model ----
(***************************************************************************)
(* Model of the meeting-insights API: the submit handler with its          *)
(* idempotency check, the in-memory JobQueue (enqueueJob, processQueue,    *)
(* processJob), the dependency-graph services (validateAndSanitizeTasks,   *)
(* detectCycles, topologicalSort, calculateTaskStatuses) and the           *)
(* complete-task route.                                                    *)
(*                                                                         *)
(* The server is one Node.js process: code between two awaits runs         *)
(* atomically.  Every action below is one such run: an awaited call        *)
(* settles (its effect on the database is taken at that moment, or it      *)
(* rejects) and the continuation runs up to the next await.                *)
(***************************************************************************)
EXTENDS Integers, Sequences, FiniteSets, TLC

----------------------------------------------------------------------------
(* Bounds of the model *)

\* number of submit requests that arrive
MaxSubmits == 2
\* number of persistence calls that may reject in one behaviour
MaxDbFailures == 1
\* number of tasks in a batch of the graph specification
MaxTasks == 3
\* total number of dependency entries in a batch of the graph specification
MaxEdges == 4
\* number of jobs enqueued in the queue specification
MaxJobs == 3
\* number of complete-task requests that arrive
MaxCompletes == 2
\* number of job-status requests that arrive
MaxPolls == 2
\* number of jobs submitted while job-status requests arrive
MaxPollJobs == 1
\* number of jobs enqueued in the fair queue specification
MaxLiveJobs == 2

\* transcriptRoutes.ts: isLength({ min: 50 })
MinTranscriptLength == 50

NoJob == 0
NoMessage == ""
CircularMessage == "This task is part of a circular dependency"

----------------------------------------------------------------------------
(* Sequences helpers *)

Range(s) == { s[i] : i \in DOMAIN s }

----------------------------------------------------------------------------
(* Transcript text.  A text is a run of n copies of one letter, in upper   *)
(* or lower case, with lead/trail blanks around it.                        *)

Text(lead, ch, caps, n, trail) ==
  [lead |-> lead, ch |-> ch, caps |-> caps, n |-> n, trail |-> trail]

\* String.prototype.trim / express-validator trim()
Trim(c) == [c EXCEPT !.lead = 0, !.trail = 0]

\* String.prototype.toLowerCase
ToLowerCase(c) == [c EXCEPT !.caps = FALSE]

\* String.prototype.length
Length(c) == c.lead + c.n + c.trail

\* variant of generateContentHash that hashes the text as submitted
HashOfRawContent(content) == content

\* utils/hash.ts generateContentHash: SHA-256 of the trimmed, lower-cased
\* text; the digest is modelled as the (collision-free) normalized text.
generateContentHash(content) == ToLowerCase(Trim(content))

\* variant of the validators that measures the text as submitted
ValidatorAcceptsUntrimmed(text) == Length(text) >= MinTranscriptLength

\* transcriptRoutes.ts validators: trim().notEmpty().isLength({min: 50})
ValidatorAccepts(text) == Length(Trim(text)) >= MinTranscriptLength

\* texts the clients submit
SubmittedTexts ==
  { Text(0, "a", FALSE, 60, 0),
    Text(1, "a", TRUE, 60, 1),
    Text(0, "b", FALSE, 50, 0),
    Text(1, "b", FALSE, 49, 0) }

----------------------------------------------------------------------------
(* Task batches *)

GenTask(id, deps) == [id |-> id, dependencies |-> deps]

TaskIdsOf(tasks) == { tasks[i].id : i \in DOMAIN tasks }

\* variant of validateAndSanitizeTasks that keeps every declared dependency
SanitizeKeepingAll(tasks) ==
  [i \in DOMAIN tasks |->
     [id |-> tasks[i].id,
      dependencies |-> tasks[i].dependencies,
      sanitizedDependencies |-> <<>>,
      status |-> "ready",
      errorMessage |-> NoMessage]]

\* ValidationService.validateAndSanitizeTasks
validateAndSanitizeTasks(tasks) ==
  LET validTaskIds == TaskIdsOf(tasks)
  IN [i \in DOMAIN tasks |->
        [id |-> tasks[i].id,
         dependencies |->
           SelectSeq(tasks[i].dependencies, LAMBDA d : d \in validTaskIds),
         sanitizedDependencies |->
           SelectSeq(tasks[i].dependencies, LAMBDA d : d \notin validTaskIds),
         status |-> "ready",
         errorMessage |-> NoMessage]]

\* variant of calculateTaskStatuses that also blocks a task when one of its
\* dependencies is blocked in the batch it is given
CalculateCascading(tasks, completedTaskIds) ==
  [i \in DOMAIN tasks |->
     IF tasks[i].status = "error"
     THEN tasks[i]
     ELSE [tasks[i] EXCEPT !.status =
             IF \E k \in DOMAIN tasks[i].dependencies :
                  \/ tasks[i].dependencies[k] \notin completedTaskIds
                  \/ \E m \in DOMAIN tasks :
                        /\ tasks[m].id = tasks[i].dependencies[k]
                        /\ tasks[m].status = "blocked"
             THEN "blocked" ELSE "ready"]]

\* variant of calculateTaskStatuses that recomputes the tasks in error state
\* like every other task
CalculateIncludingError(tasks, completedTaskIds) ==
  [i \in DOMAIN tasks |->
     [tasks[i] EXCEPT !.status =
        IF \E k \in DOMAIN tasks[i].dependencies :
             tasks[i].dependencies[k] \notin completedTaskIds
        THEN "blocked" ELSE "ready"]]

\* ValidationService.calculateTaskStatuses
calculateTaskStatuses(tasks, completedTaskIds) ==
  [i \in DOMAIN tasks |->
     IF tasks[i].status = "error"
     THEN tasks[i]
     ELSE [tasks[i] EXCEPT !.status =
             IF \E k \in DOMAIN tasks[i].dependencies :
                  tasks[i].dependencies[k] \notin completedTaskIds
             THEN "blocked" ELSE "ready"]]

\* CycleDetectionService.buildGraph: a Map from id to dependency list; keys
\* iterate in order of first insertion, a repeated id overwrites the value.
GraphKeys(tasks) ==
  LET first(i) == \A k \in 1..(i - 1) : tasks[k].id # tasks[i].id
      idx == SelectSeq([i \in DOMAIN tasks |-> i], first)
  IN [k \in DOMAIN idx |-> tasks[idx[k]].id]

\* graph.get(node) || []
GraphGet(tasks, node) ==
  IF node \in TaskIdsOf(tasks)
  THEN LET last == CHOOSE i \in DOMAIN tasks :
                     /\ tasks[i].id = node
                     /\ \A k \in DOMAIN tasks : tasks[k].id = node => k <= i
       IN tasks[last].dependencies
  ELSE <<>>

DfsState(visited, stack, cycle, found) ==
  [visited |-> visited, recursionStack |-> stack, cycleNodes |-> cycle,
   found |-> found]

RECURSIVE dfs(_, _, _)
RECURSIVE DfsNeighbors(_, _, _, _)

RECURSIVE DfsNeighborsNoPropagation(_, _, _, _)
\* variant of the for-loop that does not add the current node to cycleNodes
\* when a recursive call reports a cycle
DfsNeighborsNoPropagation(node, tasks, i, st) ==
  LET neighbors == GraphGet(tasks, node)
  IN IF i > Len(neighbors)
     THEN DfsState(st.visited, st.recursionStack \ {node}, st.cycleNodes, FALSE)
     ELSE LET neighbor == neighbors[i]
          IN IF neighbor \notin st.visited
             THEN LET r == dfs(neighbor, tasks, st)
                  IN IF r.found
                     THEN DfsState(r.visited, r.recursionStack, r.cycleNodes, TRUE)
                     ELSE DfsNeighborsNoPropagation(node, tasks, i + 1, r)
             ELSE IF neighbor \in st.recursionStack
                  THEN DfsState(st.visited, st.recursionStack,
                                st.cycleNodes \cup {node, neighbor}, TRUE)
                  ELSE DfsNeighborsNoPropagation(node, tasks, i + 1, st)

RECURSIVE DfsNeighborsNoBacktrack(_, _, _, _)
\* variant of the for-loop that leaves the node on the recursion stack when
\* it backtracks
DfsNeighborsNoBacktrack(node, tasks, i, st) ==
  LET neighbors == GraphGet(tasks, node)
  IN IF i > Len(neighbors)
     THEN DfsState(st.visited, st.recursionStack, st.cycleNodes, FALSE)
     ELSE LET neighbor == neighbors[i]
          IN IF neighbor \notin st.visited
             THEN LET r == dfs(neighbor, tasks, st)
                  IN IF r.found
                     THEN DfsState(r.visited, r.recursionStack,
                                   r.cycleNodes \cup {node}, TRUE)
                     ELSE DfsNeighborsNoBacktrack(node, tasks, i + 1, r)
             ELSE IF neighbor \in st.recursionStack
                  THEN DfsState(st.visited, st.recursionStack,
                                st.cycleNodes \cup {node, neighbor}, TRUE)
                  ELSE DfsNeighborsNoBacktrack(node, tasks, i + 1, st)

RECURSIVE DfsNeighborsCleanStack(_, _, _, _)
\* variant of the for-loop that also takes the node off the recursion stack
\* when it returns true
DfsNeighborsCleanStack(node, tasks, i, st) ==
  LET neighbors == GraphGet(tasks, node)
  IN IF i > Len(neighbors)
     THEN DfsState(st.visited, st.recursionStack \ {node}, st.cycleNodes, FALSE)
     ELSE LET neighbor == neighbors[i]
          IN IF neighbor \notin st.visited
             THEN LET r == dfs(neighbor, tasks, st)
                  IN IF r.found
                     THEN DfsState(r.visited, r.recursionStack \ {node},
                                   r.cycleNodes \cup {node}, TRUE)
                     ELSE DfsNeighborsCleanStack(node, tasks, i + 1, r)
             ELSE IF neighbor \in st.recursionStack
                  THEN DfsState(st.visited, st.recursionStack \ {node},
                                st.cycleNodes \cup {node, neighbor}, TRUE)
                  ELSE DfsNeighborsCleanStack(node, tasks, i + 1, st)

\* the for-loop of dfs over the neighbors of node, from position i on
DfsNeighbors(node, tasks, i, st) ==
  LET neighbors == GraphGet(tasks, node)
  IN IF i > Len(neighbors)
     THEN \* backtrack: recursionStack.delete(node); return false
          DfsState(st.visited, st.recursionStack \ {node}, st.cycleNodes, FALSE)
     ELSE LET neighbor == neighbors[i]
          IN IF neighbor \notin st.visited
             THEN LET r == dfs(neighbor, tasks, st)
                  IN IF r.found
                     THEN DfsState(r.visited, r.recursionStack,
                                   r.cycleNodes \cup {node}, TRUE)
                     ELSE DfsNeighbors(node, tasks, i + 1, r)
             ELSE IF neighbor \in st.recursionStack
                  THEN DfsState(st.visited, st.recursionStack,
                                st.cycleNodes \cup {node, neighbor}, TRUE)
                  ELSE DfsNeighbors(node, tasks, i + 1, st)

\* CycleDetectionService.dfs
dfs(node, tasks, st) ==
  DfsNeighbors(node, tasks, 1,
    DfsState(st.visited \cup {node}, st.recursionStack \cup {node},
             st.cycleNodes, FALSE))

RECURSIVE DetectLoop(_, _, _, _)

\* the loop of detectCycles over graph.keys(), from position k on
DetectLoop(tasks, keys, k, st) ==
  IF k > Len(keys)
  THEN st
  ELSE IF keys[k] \notin st.visited
       THEN DetectLoop(tasks, keys, k + 1, dfs(keys[k], tasks, st))
       ELSE DetectLoop(tasks, keys, k + 1, st)

\* the cycleNodes set detectCycles ends with
CycleNodesOf(tasks) ==
  DetectLoop(tasks, GraphKeys(tasks), 1, DfsState({}, {}, {}, FALSE)).cycleNodes

\* variant of detectCycles that marks the cycle nodes but reports no cycle
DetectCyclesUnreported(tasks) ==
  LET cycleNodes == CycleNodesOf(tasks)
  IN [hasCycles |-> FALSE,
      cycleNodes |-> cycleNodes,
      tasks |-> [i \in DOMAIN tasks |->
                   IF tasks[i].id \in cycleNodes
                   THEN [tasks[i] EXCEPT !.status = "error",
                                         !.errorMessage = CircularMessage]
                   ELSE tasks[i]]]

\* CycleDetectionService.detectCycles
detectCycles(tasks) ==
  LET cycleNodes == CycleNodesOf(tasks)
  IN [hasCycles |-> cycleNodes # {},
      cycleNodes |-> cycleNodes,
      tasks |-> [i \in DOMAIN tasks |->
                   IF tasks[i].id \in cycleNodes
                   THEN [tasks[i] EXCEPT !.status = "error",
                                         !.errorMessage = CircularMessage]
                   ELSE tasks[i]]]

SortState(visited, stack, result, ok) ==
  [visited |-> visited, recursionStack |-> stack, result |-> result, ok |-> ok]

RECURSIVE dfsSort(_, _, _)
RECURSIVE DfsSortNeighbors(_, _, _, _)

RECURSIVE DfsSortNeighborsNoBacktrack(_, _, _, _)
\* variant of the for-loop of dfsSort that leaves the node on the recursion
\* stack when it is done with it
DfsSortNeighborsNoBacktrack(node, tasks, i, st) ==
  LET neighbors == GraphGet(tasks, node)
  IN IF i > Len(neighbors)
     THEN SortState(st.visited, st.recursionStack,
                    Append(st.result, node), TRUE)
     ELSE LET neighbor == neighbors[i]
          IN IF neighbor \notin st.visited
             THEN LET r == dfsSort(neighbor, tasks, st)
                  IN IF ~r.ok
                     THEN r
                     ELSE DfsSortNeighborsNoBacktrack(node, tasks, i + 1, r)
             ELSE IF neighbor \in st.recursionStack
                  THEN [st EXCEPT !.ok = FALSE]
                  ELSE DfsSortNeighborsNoBacktrack(node, tasks, i + 1, st)

\* the for-loop of dfsSort over the neighbors of node, from position i on,
\* and what follows it: recursionStack.delete(node); result.push(node)
DfsSortNeighbors(node, tasks, i, st) ==
  LET neighbors == GraphGet(tasks, node)
  IN IF i > Len(neighbors)
     THEN SortState(st.visited, st.recursionStack \ {node},
                    Append(st.result, node), TRUE)
     ELSE LET neighbor == neighbors[i]
          IN IF neighbor \notin st.visited
             THEN LET r == dfsSort(neighbor, tasks, st)
                  IN IF ~r.ok
                     THEN r
                     ELSE DfsSortNeighbors(node, tasks, i + 1, r)
             ELSE IF neighbor \in st.recursionStack
                  THEN [st EXCEPT !.ok = FALSE]
                  ELSE DfsSortNeighbors(node, tasks, i + 1, st)

\* topologicalSort: the helper dfsSort
dfsSort(node, tasks, st) ==
  DfsSortNeighbors(node, tasks, 1,
    SortState(st.visited \cup {node}, st.recursionStack \cup {node},
              st.result, TRUE))

RECURSIVE SortLoop(_, _, _, _)

\* the loop of topologicalSort over graph.keys(), from position k on; it
\* stops at the first dfsSort call that returns false
SortLoop(tasks, keys, k, st) ==
  IF k > Len(keys)
  THEN st
  ELSE IF keys[k] \notin st.visited
       THEN LET r == dfsSort(keys[k], tasks, st)
            IN IF ~r.ok THEN r ELSE SortLoop(tasks, keys, k + 1, r)
       ELSE SortLoop(tasks, keys, k + 1, st)

\* Array.prototype.reverse
Reverse(s) == [i \in DOMAIN s |-> s[Len(s) + 1 - i]]

\* CycleDetectionService.topologicalSort
topologicalSort(tasks) ==
  LET st == SortLoop(tasks, GraphKeys(tasks), 1, SortState({}, {}, <<>>, TRUE))
  IN IF st.ok
     THEN [isNull |-> FALSE, order |-> Reverse(st.result)]
     ELSE [isNull |-> TRUE, order |-> <<>>]

----------------------------------------------------------------------------
(* State *)

VARIABLES
  transcripts,      \* Transcript collection: jobId -> document
  tasksDb,          \* Task collection, in insertion order
  jobs,             \* JobQueue.jobs: jobId -> Job
  processingQueue,  \* JobQueue.processingQueue
  isProcessing,     \* JobQueue.isProcessing
  drains,           \* running processQueue calls: starting jobId -> position
  requests,         \* submit requests: position and response
  completions,      \* complete-task requests: position, locals and response
  polls,            \* job-status requests: position, locals and response
  nextJobId,        \* generateJobId: next unused job id
  dbFailures,       \* number of persistence calls that rejected
  enqueued,         \* history: jobIds in the order of enqueueJob
  waited,           \* history: jobIds enqueued while a drain loop was running
  started,          \* history: jobIds in the order they left the queue
  finished,         \* history: jobIds in the order processJob settled
  genCalls,         \* history: jobIds in the order of generator calls
  genFailed,        \* history: jobIds whose generator call rejected
  gPhase,           \* graph specification: position in the pipeline
  gInput,           \* graph specification: the generator batch
  gTasks,           \* graph specification: the batch after the last stage
  gResult,          \* graph specification: result of detectCycles
  gDocs,            \* graph specification: the Task documents inserted
  gSorted,          \* graph specification: result of topologicalSort
  gCompleted        \* graph specification: the completed-set last applied

sysVars == <<transcripts, tasksDb, jobs, processingQueue, isProcessing, drains,
             requests, completions, polls, nextJobId, dbFailures, enqueued, waited, started, finished,
             genCalls, genFailed>>
graphVars == <<gPhase, gInput, gTasks, gResult, gDocs, gSorted, gCompleted>>
vars == <<transcripts, tasksDb, jobs, processingQueue, isProcessing, drains,
          requests, completions, polls, nextJobId, dbFailures, enqueued, waited, started, finished,
          genCalls, genFailed, gPhase, gInput, gTasks, gResult, gDocs,
          gSorted, gCompleted>>

Requests == 1..MaxSubmits
Completions == 1..MaxCompletes
Polls == 1..MaxPolls

NoResult == [hasCycles |-> FALSE, cycleNodes |-> {}, tasks |-> <<>>]
NoMetadata == [taskCount |-> -1, cyclesDetected |-> FALSE]
\* topologicalSort: the value null, and the value of a call not made yet
Null == [isNull |-> TRUE, order |-> <<>>]

NewRequest ==
  [pc |-> "new", text |-> Text(0, "a", FALSE, 0, 0),
   content |-> Text(0, "a", FALSE, 0, 0),
   existedAtCheck |-> FALSE, jobId |-> NoJob, code |-> 0, respJobId |-> NoJob,
   isDuplicate |-> FALSE]

NewCompletion ==
  [pc |-> "new", taskId |-> "", transcriptId |-> NoJob, loadedStatus |-> "",
   updates |-> <<>>, unblocked |-> {}, code |-> 0, alone |-> FALSE]

\* queueStatus of a response when jobQueue.getJobStatus returned undefined
NoQueueStatus == "undefined"

NewPoll ==
  [pc |-> "new", jobId |-> NoJob, status |-> "", tasks |-> <<>>,
   queued |-> FALSE, queueStatus |-> NoQueueStatus, code |-> 0]

GraphIdle ==
  /\ gPhase = "off"
  /\ gInput = <<>>
  /\ gTasks = <<>>
  /\ gResult = NoResult
  /\ gDocs = <<>>
  /\ gSorted = Null
  /\ gCompleted = {}

Init ==
  /\ transcripts = << >>
  /\ tasksDb = << >>
  /\ jobs = << >>
  /\ processingQueue = << >>
  /\ isProcessing = FALSE
  /\ drains = << >>
  /\ requests = [r \in Requests |-> NewRequest]
  /\ completions = [c \in Completions |-> NewCompletion]
  /\ polls = [p \in Polls |-> NewPoll]
  /\ nextJobId = 1
  /\ dbFailures = 0
  /\ enqueued = << >>
  /\ waited = {}
  /\ started = << >>
  /\ finished = << >>
  /\ genCalls = << >>
  /\ genFailed = {}
  /\ GraphIdle

----------------------------------------------------------------------------
(* Generator outputs (llmService.extractTasksFromTranscript): an untrusted *)
(* batch; the ids are whatever the generator chose.                        *)

GenOutputs ==
  { << GenTask("A", <<>>), GenTask("B", <<"A">>), GenTask("C", <<"X">>) >>,
    << GenTask("G", <<"H">>), GenTask("H", <<"G">>), GenTask("I", <<"G">>) >>,
    << GenTask("J", <<>>), GenTask("A", <<"J", "Y">>) >> }

ExtractionMessage == "Failed to extract tasks from transcript"
NotFoundMessage == "Transcript not found"
DuplicateKeyMessage == "E11000 duplicate key error"
\* the message a rejected persistence call carries: none, the case the
\* fallback of the catch block is for
DbErrorMessages == {""}

----------------------------------------------------------------------------
(* Persistence *)

Put(f, k, v) == [x \in (DOMAIN f) \cup {k} |-> IF x = k THEN v ELSE f[x]]
Drop(f, k) == [x \in (DOMAIN f) \ {k} |-> f[x]]

\* Transcript.findOne({ contentHash }): the documents that match
FindByHash(hash) == { j \in DOMAIN transcripts : transcripts[j].contentHash = hash }

TaskDoc(task, transcriptId) ==
  [taskId |-> task.id, dependencies |-> task.dependencies,
   status |-> task.status, errorMessage |-> task.errorMessage,
   transcriptId |-> transcriptId]

RECURSIVE InsertMany(_, _, _)
\* Task.insertMany (ordered) under the unique index on taskId: documents are
\* inserted in order up to the first duplicate key, which rejects the call.
InsertMany(db, docs, i) ==
  IF i > Len(docs)
  THEN [db |-> db, ok |-> TRUE]
  ELSE IF \E k \in DOMAIN db : db[k].taskId = docs[i].taskId
       THEN [db |-> db, ok |-> FALSE]
       ELSE InsertMany(Append(db, docs[i]), docs, i + 1)

CanFailDb == dbFailures < MaxDbFailures

----------------------------------------------------------------------------
(* JobQueue *)

Worker(pc, jobId, tasks, hasCycles, message) ==
  [pc |-> pc, jobId |-> jobId, validatedTasks |-> tasks,
   hasCycles |-> hasCycles, message |-> message]

\* variant of the drain guards that ignores the isProcessing flag
StartsDrainIgnoringFlag(processing, queue) == Len(queue) # 0

\* enqueueJob (if (!this.isProcessing) this.processQueue()) followed by
\* the guard of processQueue (return if isProcessing or the queue is empty)
StartsDrain(processing, queue) ==
  /\ ~processing
  /\ ~(processing \/ Len(queue) = 0)

\* processJob catch: error.message || 'Unknown error occurred'
StoredMessage(message) ==
  IF message = "" THEN "Unknown error occurred" ELSE message

\* variant of processQueue that does not reset isProcessing when it ends
DrainTurnLeavingFlag(d, q, js) ==
  IF Len(q) > 0
  THEN /\ processingQueue' = Tail(q)
       /\ jobs' = [js EXCEPT ![Head(q)].status = "processing"]
       /\ drains' = Put(drains, d,
                        Worker("markProcessing", Head(q), <<>>, FALSE, NoMessage))
       /\ started' = Append(started, Head(q))
       /\ isProcessing' = TRUE
  ELSE /\ processingQueue' = q
       /\ jobs' = js
       /\ drains' = Drop(drains, d)
       /\ started' = started
       /\ isProcessing' = isProcessing

\* variant of processQueue that reads the head of the queue without
\* removing it
DrainTurnKeepingHead(d, q, js) ==
  IF Len(q) > 0
  THEN /\ processingQueue' = q
       /\ jobs' = [js EXCEPT ![Head(q)].status = "processing"]
       /\ drains' = Put(drains, d,
                        Worker("markProcessing", Head(q), <<>>, FALSE, NoMessage))
       /\ started' = Append(started, Head(q))
       /\ isProcessing' = TRUE
  ELSE /\ processingQueue' = q
       /\ jobs' = js
       /\ drains' = Drop(drains, d)
       /\ started' = started
       /\ isProcessing' = FALSE

\* variant of processQueue whose loop body runs once (if instead of while)
DrainTurnOnce(d, q, js) ==
  IF Len(q) > 0 /\ d \notin DOMAIN drains
  THEN /\ processingQueue' = Tail(q)
       /\ jobs' = [js EXCEPT ![Head(q)].status = "processing"]
       /\ drains' = Put(drains, d,
                        Worker("markProcessing", Head(q), <<>>, FALSE, NoMessage))
       /\ started' = Append(started, Head(q))
       /\ isProcessing' = TRUE
  ELSE /\ processingQueue' = q
       /\ jobs' = js
       /\ drains' = Drop(drains, d)
       /\ started' = started
       /\ isProcessing' = FALSE

\* processQueue: one turn of the while loop for the drain loop d, taken with
\* the queue q and the jobs map js.  The head of the queue is removed and
\* processJob runs up to its first await (job.status = 'processing'); with an
\* empty queue the loop ends and isProcessing is reset.
DrainTurn(d, q, js) ==
  IF Len(q) > 0
  THEN /\ processingQueue' = Tail(q)
       /\ jobs' = [js EXCEPT ![Head(q)].status = "processing"]
       /\ drains' = Put(drains, d,
                        Worker("markProcessing", Head(q), <<>>, FALSE, NoMessage))
       /\ started' = Append(started, Head(q))
       /\ isProcessing' = TRUE
  ELSE /\ processingQueue' = q
       /\ jobs' = js
       /\ drains' = Drop(drains, d)
       /\ started' = started
       /\ isProcessing' = FALSE

\* variant of enqueueJob that puts the job at the front of the queue
EnqueueJobAtFront(jobId) ==
  LET js == Put(jobs, jobId, [status |-> "pending", transcriptId |-> jobId])
      q == <<jobId>> \o processingQueue
  IN /\ enqueued' = Append(enqueued, jobId)
     /\ waited' = IF DOMAIN drains # {} THEN waited \cup {jobId} ELSE waited
     /\ IF StartsDrain(isProcessing, q)
        THEN DrainTurn(jobId, q, js)
        ELSE /\ processingQueue' = q
             /\ jobs' = js
             /\ UNCHANGED <<drains, started, isProcessing>>

\* JobQueue.enqueueJob, with the processQueue call it makes
EnqueueJob(jobId) ==
  LET js == Put(jobs, jobId, [status |-> "pending", transcriptId |-> jobId])
      q == Append(processingQueue, jobId)
  IN /\ enqueued' = Append(enqueued, jobId)
     /\ waited' = IF DOMAIN drains # {} THEN waited \cup {jobId} ELSE waited
     /\ IF StartsDrain(isProcessing, q)
        THEN DrainTurn(jobId, q, js)
        ELSE /\ processingQueue' = q
             /\ jobs' = js
             /\ UNCHANGED <<drains, started, isProcessing>>

\* variant of the catch block that puts the job back to pending
CaughtAsPending(d, message) ==
  /\ jobs' = [jobs EXCEPT ![drains[d].jobId].status = "pending"]
  /\ drains' = [drains EXCEPT ![d].pc = "markFailed", ![d].message = message]

\* processJob: control enters the catch block with the error message
\* (job.status = 'failed', then the failed status is written)
Caught(d, message) ==
  /\ jobs' = [jobs EXCEPT ![drains[d].jobId].status = "failed"]
  /\ drains' = [drains EXCEPT ![d].pc = "markFailed", ![d].message = message]

\* a persistence call of the drain loop d rejects
DbRejects(d) ==
  /\ CanFailDb
  /\ dbFailures' = dbFailures + 1
  /\ \E m \in DbErrorMessages : Caught(d, m)

\* processJob: Transcript.findOneAndUpdate(status 'processing') settles
MarkProcessingReturn(d) ==
  /\ drains[d].pc = "markProcessing"
  /\ \/ /\ transcripts' = [transcripts EXCEPT ![drains[d].jobId].status = "processing"]
        /\ drains' = [drains EXCEPT ![d].pc = "findTranscript"]
        /\ UNCHANGED <<jobs, dbFailures>>
     \/ /\ DbRejects(d)
        /\ UNCHANGED transcripts
  /\ UNCHANGED <<tasksDb, processingQueue, isProcessing, requests, nextJobId,
                 enqueued, waited, started, finished, genCalls, genFailed>>
  /\ UNCHANGED graphVars
  /\ UNCHANGED <<completions, polls>>

\* processJob: Transcript.findOne settles; the generator is called
FindTranscriptReturn(d) ==
  /\ drains[d].pc = "findTranscript"
  /\ \/ /\ drains[d].jobId \in DOMAIN transcripts
        /\ drains' = [drains EXCEPT ![d].pc = "extract"]
        /\ genCalls' = Append(genCalls, drains[d].jobId)
        /\ UNCHANGED <<jobs, dbFailures>>
     \/ /\ drains[d].jobId \notin DOMAIN transcripts
        /\ Caught(d, NotFoundMessage)
        /\ UNCHANGED <<genCalls, dbFailures>>
     \/ /\ DbRejects(d)
        /\ UNCHANGED genCalls
  /\ UNCHANGED <<transcripts, tasksDb, processingQueue, isProcessing, requests,
                 nextJobId, enqueued, waited, started, finished, genFailed>>
  /\ UNCHANGED graphVars
  /\ UNCHANGED <<completions, polls>>

\* processJob: the generator call settles; on success the batch is
\* sanitized, cycles are detected and Task.insertMany is called
ExtractReturn(d) ==
  /\ drains[d].pc = "extract"
  /\ \/ \E out \in GenOutputs :
          LET validatedTasks == validateAndSanitizeTasks(out)
              cycleResult == detectCycles(validatedTasks)
          IN /\ drains' = [drains EXCEPT ![d].pc = "insertTasks",
                                         ![d].validatedTasks = cycleResult.tasks,
                                         ![d].hasCycles = cycleResult.hasCycles]
             /\ UNCHANGED <<jobs, genFailed>>
     \/ /\ Caught(d, ExtractionMessage)
        /\ genFailed' = genFailed \cup {drains[d].jobId}
  /\ UNCHANGED <<transcripts, tasksDb, processingQueue, isProcessing, requests,
                 nextJobId, dbFailures, enqueued, waited, started, finished, genCalls>>
  /\ UNCHANGED graphVars
  /\ UNCHANGED <<completions, polls>>

\* processJob: Task.insertMany settles
InsertTasksReturn(d) ==
  /\ drains[d].pc = "insertTasks"
  /\ LET docs == [i \in DOMAIN drains[d].validatedTasks |->
                    TaskDoc(drains[d].validatedTasks[i], drains[d].jobId)]
         r == InsertMany(tasksDb, docs, 1)
     IN \/ /\ r.ok
           /\ tasksDb' = r.db
           /\ drains' = [drains EXCEPT ![d].pc = "markCompleted"]
           /\ UNCHANGED <<jobs, dbFailures>>
        \/ /\ ~r.ok
           /\ tasksDb' = r.db
           /\ Caught(d, DuplicateKeyMessage)
           /\ UNCHANGED dbFailures
        \/ /\ DbRejects(d)
           /\ UNCHANGED tasksDb
  /\ UNCHANGED <<transcripts, processingQueue, isProcessing, requests, nextJobId,
                 enqueued, waited, started, finished, genCalls, genFailed>>
  /\ UNCHANGED graphVars
  /\ UNCHANGED <<completions, polls>>

\* variant of the end of the try block in which a statement after the
\* completed write throws, so that control enters the catch block
MarkCompletedThenThrows(d) ==
  /\ drains[d].pc = "markCompleted"
  /\ \/ /\ transcripts' = [transcripts EXCEPT
             ![drains[d].jobId].status = "completed",
             ![drains[d].jobId].metadata =
                [taskCount |-> Len(drains[d].validatedTasks),
                 cyclesDetected |-> drains[d].hasCycles]]
        /\ Caught(d, NoMessage)
        /\ UNCHANGED <<dbFailures, finished>>
     \/ /\ DbRejects(d)
        /\ UNCHANGED <<transcripts, finished>>
  /\ UNCHANGED <<tasksDb, processingQueue, isProcessing, requests, nextJobId,
                 enqueued, waited, started, genCalls, genFailed>>
  /\ UNCHANGED graphVars
  /\ UNCHANGED <<completions, polls>>

\* processJob: Transcript.findOneAndUpdate(status 'completed', metadata)
\* settles; on success job.status = 'completed' and processJob returns
MarkCompletedReturn(d) ==
  /\ drains[d].pc = "markCompleted"
  /\ \/ /\ transcripts' = [transcripts EXCEPT
             ![drains[d].jobId].status = "completed",
             ![drains[d].jobId].metadata =
                [taskCount |-> Len(drains[d].validatedTasks),
                 cyclesDetected |-> drains[d].hasCycles]]
        /\ jobs' = [jobs EXCEPT ![drains[d].jobId].status = "completed"]
        /\ drains' = [drains EXCEPT ![d].pc = "loop"]
        /\ finished' = Append(finished, drains[d].jobId)
        /\ UNCHANGED dbFailures
     \/ /\ DbRejects(d)
        /\ UNCHANGED <<transcripts, finished>>
  /\ UNCHANGED <<tasksDb, processingQueue, isProcessing, requests, nextJobId,
                 enqueued, waited, started, genCalls, genFailed>>
  /\ UNCHANGED graphVars
  /\ UNCHANGED <<completions, polls>>

\* processJob catch: Transcript.findOneAndUpdate(status 'failed') settles;
\* when it rejects, processJob rejects and processQueue logs the error
MarkFailedReturn(d) ==
  /\ drains[d].pc = "markFailed"
  /\ \/ /\ transcripts' = [transcripts EXCEPT
             ![drains[d].jobId].status = "failed",
             ![drains[d].jobId].errorMessage = StoredMessage(drains[d].message)]
        /\ UNCHANGED dbFailures
     \/ /\ CanFailDb
        /\ dbFailures' = dbFailures + 1
        /\ UNCHANGED transcripts
  /\ drains' = [drains EXCEPT ![d].pc = "loop"]
  /\ finished' = Append(finished, drains[d].jobId)
  /\ UNCHANGED <<tasksDb, jobs, processingQueue, isProcessing, requests,
                 nextJobId, enqueued, waited, started, genCalls, genFailed>>
  /\ UNCHANGED graphVars
  /\ UNCHANGED <<completions, polls>>

\* processQueue: the loop resumes after await this.processJob(job)
DrainNext(d) ==
  /\ drains[d].pc = "loop"
  /\ DrainTurn(d, processingQueue, jobs)
  /\ UNCHANGED <<transcripts, tasksDb, requests, nextJobId, dbFailures,
                 enqueued, waited, finished, genCalls, genFailed>>
  /\ UNCHANGED graphVars
  /\ UNCHANGED <<completions, polls>>

----------------------------------------------------------------------------
(* POST /api/transcripts *)

\* two texts are equal after trimming and lower-casing
SameNormalizedText(a, b) == a.ch = b.ch /\ a.n = b.n

\* variant of the responses that carries no job id
RespondWithoutJobId(r, code, jobId, isDuplicate) ==
  [requests[r] EXCEPT !.pc = "done", !.code = code, !.respJobId = NoJob,
                      !.isDuplicate = isDuplicate]

\* res.status(code).json({ jobId, isDuplicate })
Respond(r, code, jobId, isDuplicate) ==
  [requests[r] EXCEPT !.pc = "done", !.code = code, !.respJobId = jobId,
                      !.isDuplicate = isDuplicate]

\* the request arrives and runs up to its first settled await: the
\* validators run (the body is trimmed; 400 when they reject) and
\* checkDuplicate settles: Transcript.findOne({ contentHash }) found a
\* document (200, duplicate), found none (a job id is generated and
\* createTranscript is called) or rejected (500).  Nothing the request does
\* before the lookup is visible to the other handlers.
SubmitTranscript(r, text) ==
  /\ requests[r].pc = "new"
  /\ \A q \in Requests : q < r => requests[q].pc # "new"
  /\ LET arrived == [requests[r] EXCEPT !.text = text, !.content = Trim(text)]
         found == FindByHash(generateContentHash(arrived.content))
         existed == \E j \in DOMAIN transcripts :
                       SameNormalizedText(transcripts[j].content, text)
         Answer(code, jobId, isDuplicate) ==
           [arrived EXCEPT !.pc = "done", !.code = code, !.respJobId = jobId,
                           !.isDuplicate = isDuplicate]
     IN IF ~ValidatorAccepts(text)
        THEN /\ requests' = [requests EXCEPT ![r] = Answer(400, NoJob, FALSE)]
             /\ UNCHANGED <<nextJobId, dbFailures>>
        ELSE \/ /\ \E j \in found :
                     requests' = [requests EXCEPT ![r] =
                        [Answer(200, j, TRUE) EXCEPT !.existedAtCheck = existed]]
                /\ UNCHANGED <<nextJobId, dbFailures>>
             \/ /\ found = {}
                /\ requests' = [requests EXCEPT ![r] =
                      [arrived EXCEPT !.pc = "createTranscript",
                                      !.existedAtCheck = existed,
                                      !.jobId = nextJobId]]
                /\ nextJobId' = nextJobId + 1
                /\ UNCHANGED dbFailures
             \/ /\ CanFailDb
                /\ dbFailures' = dbFailures + 1
                /\ requests' = [requests EXCEPT ![r] =
                      [Answer(500, NoJob, FALSE) EXCEPT !.existedAtCheck = existed]]
                /\ UNCHANGED nextJobId
  /\ UNCHANGED <<transcripts, tasksDb, jobs, processingQueue, isProcessing,
                 drains, enqueued, waited, started, finished, genCalls, genFailed>>
  /\ UNCHANGED graphVars
  /\ UNCHANGED <<completions, polls>>

\* the document createTranscript saves
NewTranscript(content) ==
  [content |-> content, contentHash |-> generateContentHash(content),
   status |-> "pending", errorMessage |-> NoMessage, metadata |-> NoMetadata]

\* createTranscript settles: transcript.save() stored the document (the job
\* is enqueued and 202 is answered) or rejected (500)
CreateTranscriptReturn(r) ==
  /\ requests[r].pc = "createTranscript"
  /\ \/ /\ transcripts' = Put(transcripts, requests[r].jobId,
                              NewTranscript(requests[r].content))
        /\ EnqueueJob(requests[r].jobId)
        /\ requests' = [requests EXCEPT ![r] =
                          Respond(r, 202, requests[r].jobId, FALSE)]
        /\ UNCHANGED dbFailures
     \/ /\ CanFailDb
        /\ dbFailures' = dbFailures + 1
        /\ requests' = [requests EXCEPT ![r] = Respond(r, 500, NoJob, FALSE)]
        /\ UNCHANGED <<transcripts, jobs, processingQueue, isProcessing, drains,
                       enqueued, waited, started>>
  /\ UNCHANGED <<tasksDb, nextJobId, finished, genCalls, genFailed>>
  /\ UNCHANGED graphVars
  /\ UNCHANGED <<completions, polls>>

----------------------------------------------------------------------------
(* The service: submit requests and the job queue *)

Next ==
  \/ \E r \in Requests, text \in SubmittedTexts : SubmitTranscript(r, text)
  \/ \E r \in Requests : CreateTranscriptReturn(r)
  \/ \E d \in DOMAIN drains : MarkProcessingReturn(d)
  \/ \E d \in DOMAIN drains : FindTranscriptReturn(d)
  \/ \E d \in DOMAIN drains : ExtractReturn(d)
  \/ \E d \in DOMAIN drains : InsertTasksReturn(d)
  \/ \E d \in DOMAIN drains : MarkCompletedReturn(d)
  \/ \E d \in DOMAIN drains : MarkFailedReturn(d)
  \/ \E d \in DOMAIN drains : DrainNext(d)

Spec == Init /\ [][Next]_vars

----------------------------------------------------------------------------
(* The job queue under a stream of accepted submits.  Each submit carries a *)
(* text of its own, so its handler passes the validators and the duplicate *)
(* check; the action is the continuation of the handler after               *)
(* createTranscript has settled, which is where it meets the job queue.     *)

\* POST /api/transcripts: createTranscript has stored the document and the
\* handler calls jobQueue.enqueueJob
SubmitNewText ==
  /\ nextJobId <= MaxJobs
  /\ transcripts' = Put(transcripts, nextJobId,
        NewTranscript(Text(0, "a", FALSE, MinTranscriptLength + nextJobId, 0)))
  /\ EnqueueJob(nextJobId)
  /\ nextJobId' = nextJobId + 1
  /\ UNCHANGED <<tasksDb, requests, dbFailures, finished, genCalls, genFailed>>
  /\ UNCHANGED graphVars
  /\ UNCHANGED <<completions, polls>>

NextQueue ==
  \/ SubmitNewText
  \/ \E d \in DOMAIN drains : MarkProcessingReturn(d)
  \/ \E d \in DOMAIN drains : FindTranscriptReturn(d)
  \/ \E d \in DOMAIN drains : ExtractReturn(d)
  \/ \E d \in DOMAIN drains : InsertTasksReturn(d)
  \/ \E d \in DOMAIN drains : MarkCompletedReturn(d)
  \/ \E d \in DOMAIN drains : MarkFailedReturn(d)
  \/ \E d \in DOMAIN drains : DrainNext(d)

SpecQueue == Init /\ [][NextQueue]_vars

\* a submit of a text not seen before, in the fair queue specification
SubmitLiveText ==
  /\ nextJobId <= MaxLiveJobs
  /\ SubmitNewText

NextLive ==
  \/ SubmitLiveText
  \/ \E d \in DOMAIN drains : MarkProcessingReturn(d)
  \/ \E d \in DOMAIN drains : FindTranscriptReturn(d)
  \/ \E d \in DOMAIN drains : ExtractReturn(d)
  \/ \E d \in DOMAIN drains : InsertTasksReturn(d)
  \/ \E d \in DOMAIN drains : MarkCompletedReturn(d)
  \/ \E d \in DOMAIN drains : MarkFailedReturn(d)
  \/ \E d \in DOMAIN drains : DrainNext(d)

\* an awaited call of the worker settles, or its loop resumes
WorkerStep ==
  \E d \in DOMAIN drains :
     \/ MarkProcessingReturn(d)
     \/ FindTranscriptReturn(d)
     \/ ExtractReturn(d)
     \/ InsertTasksReturn(d)
     \/ MarkCompletedReturn(d)
     \/ MarkFailedReturn(d)
     \/ DrainNext(d)

\* the job queue when every generator call and every persistence call the
\* worker awaits eventually returns, with a result or an error
SpecQueueFair == Init /\ [][NextLive]_vars /\ WF_vars(WorkerStep)

----------------------------------------------------------------------------
(* GET /api/jobs/:jobId *)

\* job ids the clients ask for; NoJob is the id of no job
PolledJobIds == {NoJob} \cup (1..MaxPollJobs)

\* catch: an awaited persistence call of the request p rejected, 500
PollRejects(p, rec) ==
  /\ CanFailDb
  /\ dbFailures' = dbFailures + 1
  /\ polls' = [polls EXCEPT ![p] = [rec EXCEPT !.pc = "done", !.code = 500]]

\* res.json: the response carries the status of the loaded Transcript, the
\* task list and the Job object of the queue as it is now
PollRespond(rec, tasks) ==
  [rec EXCEPT !.pc = "done", !.code = 200, !.tasks = tasks,
              !.queueStatus = IF rec.queued THEN jobs[rec.jobId].status
                              ELSE NoQueueStatus]

\* variant of the test on the loaded Transcript that asks for the tasks
\* whatever its status
TasksWantedAlways(transcript) == TRUE

\* if (transcript.status === 'completed')
TasksWanted(transcript) == transcript.status = "completed"

\* the request arrives and Transcript.findOne({ jobId }) settles: no
\* document (404), a document that is not completed (200 with an empty task
\* list), a completed document (Task.find is called) or a rejection (500)
GetJob(p, jobId) ==
  /\ polls[p].pc = "new"
  /\ \A q \in Polls : q < p => polls[q].pc # "new"
  /\ LET arrived == [polls[p] EXCEPT !.jobId = jobId]
     IN \/ /\ jobId \notin DOMAIN transcripts
           /\ polls' = [polls EXCEPT ![p] =
                          [arrived EXCEPT !.pc = "done", !.code = 404]]
           /\ UNCHANGED dbFailures
        \/ /\ jobId \in DOMAIN transcripts
           /\ LET transcript == transcripts[jobId]
                  loaded == [arrived EXCEPT !.status = transcript.status,
                                            !.queued = jobId \in DOMAIN jobs]
              IN polls' = [polls EXCEPT ![p] =
                             IF TasksWanted(transcript)
                             THEN [loaded EXCEPT !.pc = "findTasks"]
                             ELSE PollRespond(loaded, <<>>)]
           /\ UNCHANGED dbFailures
        \/ PollRejects(p, arrived)
  /\ UNCHANGED <<transcripts, tasksDb, jobs, processingQueue, isProcessing,
                 drains, requests, completions, nextJobId, enqueued, waited,
                 started, finished, genCalls, genFailed>>
  /\ UNCHANGED graphVars

\* Task.find({ transcriptId: transcript._id }) settles and the request is
\* answered 200 with the documents found (or 500 when it rejected)
FindTasksReturn(p) ==
  /\ polls[p].pc = "findTasks"
  /\ \/ /\ polls' = [polls EXCEPT ![p] =
                       PollRespond(polls[p],
                         SelectSeq(tasksDb,
                           LAMBDA t : t.transcriptId = polls[p].jobId))]
        /\ UNCHANGED dbFailures
     \/ PollRejects(p, polls[p])
  /\ UNCHANGED <<transcripts, tasksDb, jobs, processingQueue, isProcessing,
                 drains, requests, completions, nextJobId, enqueued, waited,
                 started, finished, genCalls, genFailed>>
  /\ UNCHANGED graphVars

\* a submit of a text not seen before, while job-status requests arrive
SubmitPolledText ==
  /\ nextJobId <= MaxPollJobs
  /\ SubmitNewText

NextPoll ==
  \/ SubmitPolledText
  \/ \E d \in DOMAIN drains : MarkProcessingReturn(d)
  \/ \E d \in DOMAIN drains : FindTranscriptReturn(d)
  \/ \E d \in DOMAIN drains : ExtractReturn(d)
  \/ \E d \in DOMAIN drains : InsertTasksReturn(d)
  \/ \E d \in DOMAIN drains : MarkCompletedReturn(d)
  \/ \E d \in DOMAIN drains : MarkFailedReturn(d)
  \/ \E d \in DOMAIN drains : DrainNext(d)
  \/ \E p \in Polls, jobId \in PolledJobIds : GetJob(p, jobId)
  \/ \E p \in Polls : FindTasksReturn(p)

SpecPoll == Init /\ [][NextPoll]_vars

----------------------------------------------------------------------------
(* The graph pipeline of processJob on one generator batch: the generator  *)
(* assembles its batch, then the batch is sanitized, cycles are detected   *)
(* and the Task documents are inserted into an empty collection.           *)
(* The batches are all batches of at most MaxTasks tasks with distinct ids *)
(* and at most MaxEdges dependency entries in total, each entry a sibling  *)
(* id or the absent id "X".  The services treat ids as opaque strings, so  *)
(* the batch order T1, T2, ... with every dependency structure covers      *)
(* every order of every batch.                                             *)

IdPool == <<"T1", "T2", "T3", "T4", "T5", "T6">>
AbsentId == "X"

\* the number of dependency entries of a batch
RECURSIVE EdgeCount(_)
EdgeCount(tasks) ==
  IF tasks = <<>>
  THEN 0
  ELSE Len(Head(tasks).dependencies) + EdgeCount(Tail(tasks))

SysIdle ==
  /\ transcripts = << >>
  /\ tasksDb = << >>
  /\ jobs = << >>
  /\ processingQueue = << >>
  /\ isProcessing = FALSE
  /\ drains = << >>
  /\ requests = [r \in Requests |-> NewRequest]
  /\ completions = [c \in Completions |-> NewCompletion]
  /\ polls = [p \in Polls |-> NewPoll]
  /\ nextJobId = 1
  /\ dbFailures = 0
  /\ enqueued = << >>
  /\ waited = {}
  /\ started = << >>
  /\ finished = << >>
  /\ genCalls = << >>
  /\ genFailed = {}

InitGraph ==
  /\ SysIdle
  /\ gPhase = "input"
  /\ gInput = <<>>
  /\ gTasks = <<>>
  /\ gResult = NoResult
  /\ gDocs = <<>>
  /\ gSorted = Null
  /\ gCompleted = {}

\* the generator output gets one more task
GenAddTask ==
  /\ gPhase = "input"
  /\ Len(gInput) < MaxTasks
  /\ gInput' = Append(gInput, GenTask(IdPool[Len(gInput) + 1], <<>>))
  /\ UNCHANGED <<gPhase, gTasks, gResult, gDocs>>
  /\ UNCHANGED <<gSorted, gCompleted>>
  /\ UNCHANGED sysVars

\* a task of the generator output gets one more dependency entry
GenAddDependency(i, dep) ==
  /\ gPhase = "input"
  /\ i \in DOMAIN gInput
  /\ EdgeCount(gInput) < MaxEdges
  /\ gInput' = [gInput EXCEPT ![i].dependencies = Append(@, dep)]
  /\ UNCHANGED <<gPhase, gTasks, gResult, gDocs>>
  /\ UNCHANGED <<gSorted, gCompleted>>
  /\ UNCHANGED sysVars

\* processJob step 2: validationService.validateAndSanitizeTasks
Sanitize ==
  /\ gPhase = "input"
  /\ gPhase' = "sanitized"
  /\ gTasks' = validateAndSanitizeTasks(gInput)
  /\ UNCHANGED <<gInput, gResult, gDocs>>
  /\ UNCHANGED <<gSorted, gCompleted>>
  /\ UNCHANGED sysVars

\* processJob step 3: cycleDetectionService.detectCycles
Detect ==
  /\ gPhase = "sanitized"
  /\ gPhase' = "detected"
  /\ gResult' = detectCycles(gTasks)
  /\ gTasks' = detectCycles(gTasks).tasks
  /\ UNCHANGED <<gInput, gDocs>>
  /\ UNCHANGED <<gSorted, gCompleted>>
  /\ UNCHANGED sysVars

\* processJob step 4: Task.insertMany of the mapped documents
Persist ==
  /\ gPhase = "detected"
  /\ gPhase' = "persisted"
  /\ gDocs' = InsertMany(<<>>, [i \in DOMAIN gTasks |-> TaskDoc(gTasks[i], 1)], 1).db
  /\ UNCHANGED <<gInput, gTasks, gResult>>
  /\ UNCHANGED <<gSorted, gCompleted>>
  /\ UNCHANGED sysVars

NextGraph ==
  \/ GenAddTask
  \/ \E i \in 1..MaxTasks, dep \in Range(IdPool) \cup {AbsentId} :
        dep \in TaskIdsOf(gInput) \cup {AbsentId} /\ GenAddDependency(i, dep)
  \/ Sanitize
  \/ Detect
  \/ Persist

SpecGraph == InitGraph /\ [][NextGraph]_vars

\* detectCycles on the batches whose dependency ids all name a task of the
\* batch, the only ones validateAndSanitizeTasks hands to it
NextDetect ==
  \/ GenAddTask
  \/ \E i \in 1..MaxTasks, dep \in Range(IdPool) :
        dep \in TaskIdsOf(gInput) /\ GenAddDependency(i, dep)
  \/ Sanitize
  \/ Detect

SpecDetect == InitGraph /\ [][NextDetect]_vars

\* a caller sorts the sanitized batch: cycleDetectionService.topologicalSort
Sort ==
  /\ gPhase = "sanitized"
  /\ gPhase' = "sorted"
  /\ gSorted' = topologicalSort(gTasks)
  /\ UNCHANGED <<gInput, gTasks, gResult, gDocs, gCompleted>>
  /\ UNCHANGED sysVars

NextSort ==
  \/ GenAddTask
  \/ \E i \in 1..MaxTasks, dep \in Range(IdPool) \cup {AbsentId} :
        dep \in TaskIdsOf(gInput) \cup {AbsentId} /\ GenAddDependency(i, dep)
  \/ Sanitize
  \/ Sort

SpecSort == InitGraph /\ [][NextSort]_vars

\* a caller recomputes the readiness of the batch for a completed-set:
\* validationService.calculateTaskStatuses(tasks, completedTaskIds).  The
\* first call is made with any completed-set, a later call after one more
\* task has completed.
Recompute(completedTaskIds) ==
  /\ \/ gPhase = "detected"
     \/ /\ gPhase = "recomputed"
        /\ \E t \in TaskIdsOf(gTasks) \ gCompleted :
              completedTaskIds = gCompleted \cup {t}
  /\ gPhase' = "recomputed"
  /\ gTasks' = calculateTaskStatuses(gTasks, completedTaskIds)
  /\ gCompleted' = completedTaskIds
  /\ UNCHANGED <<gInput, gResult, gDocs, gSorted>>
  /\ UNCHANGED sysVars

\* the batches of this specification list sibling ids only, as every batch
\* does once it is sanitized
NextCalc ==
  \/ GenAddTask
  \/ \E i \in 1..MaxTasks, dep \in Range(IdPool) :
        dep \in TaskIdsOf(gInput) /\ GenAddDependency(i, dep)
  \/ Sanitize
  \/ Detect
  \/ \E completedTaskIds \in SUBSET TaskIdsOf(gTasks) : Recompute(completedTaskIds)

SpecCalc == InitGraph /\ [][NextCalc]_vars

----------------------------------------------------------------------------
(* PATCH /api/tasks/:taskId/complete, on the Task documents of one          *)
(* Transcript whose job has completed.                                      *)

\* generator outputs the stored Transcript was processed from
TaskBatches ==
  { << GenTask("A", <<>>), GenTask("B", <<"A">>), GenTask("C", <<"X">>) >>,
    << GenTask("A", <<>>), GenTask("D", <<>>), GenTask("B", <<"A", "D">>),
       GenTask("E", <<"B">>) >>,
    << GenTask("G", <<"H">>), GenTask("H", <<"G">>), GenTask("I", <<>>),
       GenTask("K", <<"I">>) >> }

\* task ids the clients ask to complete; "Z" is the id of no task
RequestedTaskIds == {"A", "B", "D", "E", "G", "I", "K", "Z"}

\* the state after one submit has been accepted and its job has completed
\* with the generator output out
InitTasks ==
  \E out \in TaskBatches :
     LET cycleResult == detectCycles(validateAndSanitizeTasks(out))
         docs == [i \in DOMAIN cycleResult.tasks |->
                    TaskDoc(cycleResult.tasks[i], 1)]
     IN /\ tasksDb = InsertMany(<<>>, docs, 1).db
        /\ transcripts = Put(<<>>, 1,
             [NewTranscript(Text(0, "a", FALSE, MinTranscriptLength + 1, 0))
                EXCEPT !.status = "completed",
                       !.metadata = [taskCount |-> Len(docs),
                                     cyclesDetected |-> cycleResult.hasCycles]])
        /\ jobs = Put(<<>>, 1, [status |-> "completed", transcriptId |-> 1])
        /\ processingQueue = << >>
        /\ isProcessing = FALSE
        /\ drains = << >>
        /\ requests = [r \in Requests |-> NewRequest]
        /\ completions = [c \in Completions |-> NewCompletion]
        /\ polls = [p \in Polls |-> NewPoll]
        /\ nextJobId = 2
        /\ dbFailures = 0
        /\ enqueued = <<1>>
        /\ waited = {}
        /\ started = <<1>>
        /\ finished = <<1>>
        /\ genCalls = <<1>>
        /\ genFailed = {}
        /\ GraphIdle

\* the request c is between its first and its last awaited call
InFlight(c) == completions[c].pc \notin {"new", "done"}

\* the request c moves on with the locals rec; every other request in
\* flight has now been interleaved with
Advance(c, rec) ==
  completions' =
    [q \in Completions |->
       IF q = c THEN rec
       ELSE IF InFlight(q) THEN [completions[q] EXCEPT !.alone = FALSE]
       ELSE completions[q]]

\* catch: an awaited persistence call of the request c rejected, 500
CompleteRejects(c, rec) ==
  /\ CanFailDb
  /\ dbFailures' = dbFailures + 1
  /\ Advance(c, [rec EXCEPT !.pc = "done", !.code = 500])

\* an update of the status of the document with this taskId
SetStatus(db, taskId, status) ==
  [k \in DOMAIN db |->
     IF db[k].taskId = taskId THEN [db[k] EXCEPT !.status = status] ELSE db[k]]

\* the request arrives and Task.findOne({ taskId }) settles: no document
\* (404), a document (task.status = 'completed' is assigned to the loaded
\* copy and task.save() is called) or a rejection (500)
CompleteTask(c, taskId) ==
  /\ completions[c].pc = "new"
  /\ \A q \in Completions : q < c => completions[q].pc # "new"
  /\ LET arrived == [completions[c] EXCEPT
                       !.taskId = taskId,
                       !.alone = \A q \in Completions \ {c} : ~InFlight(q)]
     IN \/ /\ \E k \in DOMAIN tasksDb :
                /\ tasksDb[k].taskId = taskId
                /\ Advance(c, [arrived EXCEPT
                                 !.pc = "save",
                                 !.transcriptId = tasksDb[k].transcriptId,
                                 !.loadedStatus = tasksDb[k].status])
           /\ UNCHANGED dbFailures
        \/ /\ \A k \in DOMAIN tasksDb : tasksDb[k].taskId # taskId
           /\ Advance(c, [arrived EXCEPT !.pc = "done", !.code = 404])
           /\ UNCHANGED dbFailures
        \/ CompleteRejects(c, arrived)
  /\ UNCHANGED <<transcripts, tasksDb, jobs, processingQueue, isProcessing,
                 drains, requests, polls, nextJobId, enqueued, waited, started,
                 finished, genCalls, genFailed>>
  /\ UNCHANGED graphVars

\* task.save() settles: the status path is written when the assignment
\* changed the loaded copy (a document loaded as completed has no modified
\* path and nothing is written); then Task.find({ transcriptId }) is called
SaveReturn(c) ==
  /\ completions[c].pc = "save"
  /\ \/ /\ tasksDb' = IF completions[c].loadedStatus = "completed"
                      THEN tasksDb
                      ELSE SetStatus(tasksDb, completions[c].taskId, "completed")
        /\ Advance(c, [completions[c] EXCEPT !.pc = "findAll"])
        /\ UNCHANGED dbFailures
     \/ /\ CompleteRejects(c, completions[c])
        /\ UNCHANGED tasksDb
  /\ UNCHANGED <<transcripts, jobs, processingQueue, isProcessing, drains,
                 requests, polls, nextJobId, enqueued, waited, started, finished,
                 genCalls, genFailed>>
  /\ UNCHANGED graphVars

\* variant of the completed-set in which no task counts as completed
NoCompletedTaskIds(allTasks) == {}

\* new Set(allTasks.filter(t => t.status === 'completed').map(t => t.taskId))
CompletedTaskIds(allTasks) ==
  { allTasks[k].taskId : k \in { m \in DOMAIN allTasks :
                                   allTasks[m].status = "completed" } }

\* allTasks.filter(not completed, not error).map(...)
TasksToUpdate(allTasks) ==
  LET open == SelectSeq(allTasks,
                LAMBDA t : t.status # "completed" /\ t.status # "error")
  IN [i \in DOMAIN open |->
        [id |-> open[i].taskId, dependencies |-> open[i].dependencies,
         status |-> open[i].status]]

\* Task.find({ transcriptId }) settles: the statuses of the tasks that are
\* neither completed nor error are recomputed from the list read, and the
\* first write-back is called (or the final Task.find when there is none)
FindAllReturn(c) ==
  /\ completions[c].pc = "findAll"
  /\ \/ LET allTasks == SelectSeq(tasksDb,
                          LAMBDA t : t.transcriptId = completions[c].transcriptId)
            tasksToUpdate == TasksToUpdate(allTasks)
            updatedTasks == calculateTaskStatuses(tasksToUpdate,
                                                  CompletedTaskIds(allTasks))
        IN /\ Advance(c, [completions[c] EXCEPT
                !.pc = IF updatedTasks = <<>> THEN "findFinal" ELSE "update",
                !.updates = updatedTasks,
                !.unblocked = { updatedTasks[i].id : i \in
                                  { m \in DOMAIN updatedTasks :
                                      /\ tasksToUpdate[m].status = "blocked"
                                      /\ updatedTasks[m].status = "ready" } }])
           /\ UNCHANGED dbFailures
     \/ CompleteRejects(c, completions[c])
  /\ UNCHANGED <<transcripts, tasksDb, jobs, processingQueue, isProcessing,
                 drains, requests, polls, nextJobId, enqueued, waited, started,
                 finished, genCalls, genFailed>>
  /\ UNCHANGED graphVars

\* Task.findOneAndUpdate({ taskId }, { status }) of the write-back loop
\* settles; the loop goes on to the next task or to the final Task.find
UpdateReturn(c) ==
  /\ completions[c].pc = "update"
  /\ \/ LET updatedTask == Head(completions[c].updates)
            rest == Tail(completions[c].updates)
        IN /\ tasksDb' = SetStatus(tasksDb, updatedTask.id, updatedTask.status)
           /\ Advance(c, [completions[c] EXCEPT
                !.pc = IF rest = <<>> THEN "findFinal" ELSE "update",
                !.updates = rest])
           /\ UNCHANGED dbFailures
     \/ /\ CompleteRejects(c, completions[c])
        /\ UNCHANGED tasksDb
  /\ UNCHANGED <<transcripts, jobs, processingQueue, isProcessing, drains,
                 requests, polls, nextJobId, enqueued, waited, started, finished,
                 genCalls, genFailed>>
  /\ UNCHANGED graphVars

\* the final Task.find({ transcriptId }) settles and the request is
\* answered 200 (or 500 when it rejected)
FindFinalReturn(c) ==
  /\ completions[c].pc = "findFinal"
  /\ \/ /\ Advance(c, [completions[c] EXCEPT !.pc = "done", !.code = 200])
        /\ UNCHANGED dbFailures
     \/ CompleteRejects(c, completions[c])
  /\ UNCHANGED <<transcripts, tasksDb, jobs, processingQueue, isProcessing,
                 drains, requests, polls, nextJobId, enqueued, waited, started,
                 finished, genCalls, genFailed>>
  /\ UNCHANGED graphVars

NextTasks ==
  \/ \E c \in Completions, taskId \in RequestedTaskIds : CompleteTask(c, taskId)
  \/ \E c \in Completions : SaveReturn(c)
  \/ \E c \in Completions : FindAllReturn(c)
  \/ \E c \in Completions : UpdateReturn(c)
  \/ \E c \in Completions : FindFinalReturn(c)

SpecTasks == InitTasks /\ [][NextTasks]_vars

----------------------------------------------------------------------------
(* Graph notions the properties are stated with *)

\* the ids task u lists as dependencies
DependenciesOf(tasks, u) ==
  UNION { Range(tasks[i].dependencies) : i \in { k \in DOMAIN tasks : tasks[k].id = u } }

RECURSIVE Closure(_, _)
\* the ids reachable from the set S along dependency edges, S included
Closure(tasks, S) ==
  LET S2 == S \cup UNION { DependenciesOf(tasks, u) : u \in S }
  IN IF S2 = S THEN S ELSE Closure(tasks, S2)

\* u lies on a directed dependency cycle (a self-dependency included)
OnCycle(tasks, u) == u \in Closure(tasks, DependenciesOf(tasks, u))

HasCycle(tasks) == \E u \in TaskIdsOf(tasks) : OnCycle(tasks, u)

GraphDetected == gPhase \in {"detected", "persisted"}

----------------------------------------------------------------------------
(* Properties of the graph pipeline (SpecGraph) *)

\* C7: after validateAndSanitizeTasks every task's dependency list contains
\* only ids of tasks of the same batch, and so does every Task document
\* that processJob inserts for the batch.
SanitizedDependenciesAreSiblings ==
  /\ gPhase # "input" =>
       \A i \in DOMAIN gTasks :
          Range(gTasks[i].dependencies) \subseteq TaskIdsOf(gInput)
  /\ gPhase = "persisted" =>
       /\ Len(gDocs) = Len(gInput)
       /\ \A i \in DOMAIN gDocs :
            Range(gDocs[i].dependencies) \subseteq { gDocs[k].taskId : k \in DOMAIN gDocs }

\* C7 witness: a batch with a dangling dependency id was sanitized and
\* its documents inserted.
DanglingDependencySanitized ==
  /\ gPhase = "persisted"
  /\ \E i \in DOMAIN gInput : AbsentId \in Range(gInput[i].dependencies)
  /\ \E i \in DOMAIN gDocs : gDocs[i].dependencies # <<>>

\* C8: detectCycles sets status error, with the circular-dependency
\* message, on every task that lies on a directed dependency cycle, and
\* returns hasCycles = TRUE whenever the batch has such a cycle.
CycleMembersMarkedError ==
  GraphDetected =>
    /\ \A i \in DOMAIN gTasks :
         OnCycle(gTasks, gTasks[i].id) =>
           /\ gTasks[i].status = "error"
           /\ gTasks[i].errorMessage = CircularMessage
           /\ gTasks[i].id \in gResult.cycleNodes
    /\ HasCycle(gTasks) => gResult.hasCycles

\* C8 witness: the cycle T1 -> T2 -> T3 -> T1 went through detectCycles.
ThreeCycleDetected ==
  /\ GraphDetected
  /\ Len(gTasks) = 3
  /\ gTasks[1].dependencies = <<"T2">>
  /\ gTasks[2].dependencies = <<"T3">>
  /\ gTasks[3].dependencies = <<"T1">>
  /\ \A i \in 1..3 : gTasks[i].status = "error"
  /\ gResult.hasCycles

\* C9: for a batch without a directed cycle detectCycles returns
\* hasCycles = FALSE and an empty cycle set and marks no task error.
AcyclicBatchUnmarked ==
  (GraphDetected /\ ~HasCycle(gTasks)) =>
    /\ ~gResult.hasCycles
    /\ gResult.cycleNodes = {}
    /\ \A i \in DOMAIN gTasks :
         /\ gTasks[i].status \in {"ready", "blocked"}
         /\ gTasks[i].errorMessage = NoMessage

\* C9 witness: an acyclic batch in which a task is reached along two paths
\* (T1 -> T2 -> T3 and T1 -> T3) went through detectCycles.
AcyclicDiamondDetected ==
  /\ GraphDetected
  /\ Len(gTasks) = 3
  /\ gTasks[1].dependencies = <<"T2", "T3">>
  /\ gTasks[2].dependencies = <<"T3">>
  /\ gTasks[3].dependencies = <<>>
  /\ ~gResult.hasCycles

\* C10: a task that is on no cycle and whose only dependency is a task
\* marked error by detectCycles is not itself marked error, and its
\* document is inserted with a non-error status.
DependentOfCycleNotMarked ==
  /\ GraphDetected =>
       \A i \in DOMAIN gTasks :
          ( /\ ~OnCycle(gTasks, gTasks[i].id)
            /\ \E e \in DOMAIN gTasks :
                 /\ gTasks[e].status = "error"
                 /\ Range(gTasks[i].dependencies) = {gTasks[e].id} )
          => gTasks[i].status # "error"
  /\ gPhase = "persisted" =>
       \A i \in DOMAIN gDocs :
          ( /\ ~OnCycle(gTasks, gDocs[i].taskId)
            /\ \E e \in DOMAIN gDocs :
                 /\ gDocs[e].status = "error"
                 /\ Range(gDocs[i].dependencies) = {gDocs[e].taskId} )
          => gDocs[i].status # "error"

\* the ids of the tasks of a batch that carry status error
ErrorIds(tasks) == { tasks[i].id : i \in { k \in DOMAIN tasks : tasks[k].status = "error" } }

\* the batch in the order given by the permutation p of its positions,
\* every dependency list reversed when flip is TRUE
Reordered(tasks, p, flip) ==
  [i \in DOMAIN tasks |->
     IF flip
     THEN [tasks[p[i]] EXCEPT !.dependencies = Reverse(@)]
     ELSE tasks[p[i]]]

----------------------------------------------------------------------------
(* Properties of the service (Spec) *)

JobsWithStatus(status) == { j \in DOMAIN jobs : jobs[j].status = status }

Terminal == {"completed", "failed"}

\* no processQueue call is running
WorkerIdle == ~isProcessing /\ DOMAIN drains = {}

\* C1: at most one job is being processed at any time: at most one job has
\* status processing and at most one processJob call is in flight, however
\* enqueueJob calls interleave with a suspended job.
AtMostOneJobProcessing ==
  /\ Cardinality(JobsWithStatus("processing")) <= 1
  /\ Cardinality(DOMAIN drains) <= 1

\* C1 witness: enqueueJob was called while a job was suspended in its
\* generator call.
EnqueuedDuringGeneratorCall ==
  \E d \in DOMAIN drains :
     /\ drains[d].pc = "extract"
     /\ Len(processingQueue) > 0
     /\ waited # {}

\* C2: whenever the worker is idle the processing queue is empty and no job
\* is left pending: a job enqueued while the worker was draining has been
\* taken from the queue before the worker went idle.
NoLostWakeup ==
  /\ ~isProcessing => DOMAIN drains = {}
  /\ WorkerIdle => /\ processingQueue = << >>
                   /\ JobsWithStatus("pending") = {}
                   /\ waited \subseteq Range(finished)

\* C2 witness: the worker has gone idle after a job that was enqueued while
\* it was draining.
IdleAfterLateEnqueue ==
  /\ WorkerIdle
  /\ waited # {}

\* C3: when the generator call of a job fails, the job's Transcript ends
\* failed with a non-empty errorMessage, and the drain loop goes on: the
\* jobs enqueued after it are taken from the queue and reach their own
\* terminal status before the worker goes idle.
GeneratorFailureIsolated ==
  /\ \A j \in genFailed :
        j \in Range(finished) =>
          /\ transcripts[j].status = "failed"
          /\ transcripts[j].errorMessage # NoMessage
  /\ WorkerIdle => \A j \in DOMAIN jobs : jobs[j].status \in Terminal

\* C4: at most one Transcript exists per contentHash.
OneTranscriptPerHash ==
  \A i, j \in DOMAIN transcripts :
     transcripts[i].contentHash = transcripts[j].contentHash => i = j

\* the job ids that own anything: a Transcript, a Job, a generator call or
\* a Task document
OwningJobIds ==
  DOMAIN transcripts \cup DOMAIN jobs \cup Range(genCalls)
    \cup { tasksDb[k].transcriptId : k \in DOMAIN tasksDb }

\* C5: a submit whose duplicate check runs when a Transcript of the same
\* text after trimming and lower-casing exists is answered 200 with that
\* Transcript's jobId and isDuplicate = TRUE, whatever the Transcript's
\* status; it generates no job id, so no Transcript, Job, generator call or
\* Task document belongs to it.  (A check that the persistence layer
\* rejects is answered 500 and creates nothing either.)
DuplicateSubmitReturnsExistingJob ==
  /\ \A r \in Requests :
        requests[r].existedAtCheck =>
          /\ requests[r].pc = "done"
          /\ requests[r].jobId = NoJob
          /\ requests[r].code \in {200, 500}
          /\ requests[r].code = 500 => dbFailures > 0
          /\ requests[r].code = 200 =>
               /\ requests[r].isDuplicate
               /\ requests[r].respJobId \in DOMAIN transcripts
               /\ SameNormalizedText(transcripts[requests[r].respJobId].content,
                                     requests[r].text)
  /\ \A j \in OwningJobIds :
        \E r \in Requests : requests[r].jobId = j /\ ~requests[r].existedAtCheck

\* C5 witness: a text that differs from the stored one in case and blanks
\* was answered as a duplicate of a Transcript whose job had completed.
DuplicateOfCompletedAnswered ==
  \E r \in Requests :
     /\ requests[r].pc = "done"
     /\ requests[r].code = 200
     /\ requests[r].isDuplicate
     /\ requests[r].respJobId \in DOMAIN transcripts
     /\ transcripts[requests[r].respJobId].content # Trim(requests[r].text)
     /\ transcripts[requests[r].respJobId].status = "completed"

\* C6: two accepted submits of the same normalized text carry the same
\* jobId, and only one job is enqueued and only one generator call is made
\* for that text, also when the two requests run concurrently.
ConcurrentSubmitsConverge ==
  /\ \A r, q \in Requests :
        ( /\ requests[r].pc = "done" /\ requests[r].code \in {200, 202}
          /\ requests[q].pc = "done" /\ requests[q].code \in {200, 202}
          /\ SameNormalizedText(requests[r].text, requests[q].text) )
        => requests[r].respJobId = requests[q].respJobId
  /\ \A i, j \in DOMAIN jobs :
        SameNormalizedText(transcripts[i].content, transcripts[j].content) => i = j
  /\ \A m, n \in DOMAIN genCalls :
        SameNormalizedText(transcripts[genCalls[m]].content,
                           transcripts[genCalls[n]].content) => m = n

\* the Task documents that belong to the Transcript of job j
TasksOfJob(j) == SelectSeq(tasksDb, LAMBDA doc : doc.transcriptId = j)

\* C11: when a job completes, every Task document of it that is not error
\* has status ready if its (sanitized) dependency list is empty and blocked
\* otherwise.
InitialReadinessPersisted ==
  \A j \in DOMAIN transcripts :
     transcripts[j].status = "completed" =>
       \A k \in DOMAIN tasksDb :
          (tasksDb[k].transcriptId = j /\ tasksDb[k].status # "error") =>
            tasksDb[k].status =
              IF tasksDb[k].dependencies = <<>> THEN "ready" ELSE "blocked"

\* the causes that make processJob fail: the generator call, a missing
\* Transcript, a duplicate task id, a rejected persistence call
FailureMessages ==
  {ExtractionMessage, NotFoundMessage, DuplicateKeyMessage} \cup DbErrorMessages

\* C20: dangling dependency ids and dependency cycles in a generator output
\* do not fail the job.  A job fails only when the generator call, the
\* Transcript lookup or a persistence call failed (a rejected call or a
\* duplicate task id); otherwise the job and its Transcript reach completed.
\* For every completed Transcript the whole batch is stored (taskCount
\* documents), every stored task on a dependency cycle has status error, and
\* metadata.cyclesDetected is TRUE exactly when a stored task has status
\* error.
GraphAnomaliesDoNotFailJob ==
  /\ \A d \in DOMAIN drains :
        drains[d].pc \in {"markFailed", "loop"} =>
          IF jobs[drains[d].jobId].status = "failed"
          THEN /\ drains[d].message \in FailureMessages
               /\ drains[d].message \in DbErrorMessages => dbFailures > 0
               /\ drains[d].message = DuplicateKeyMessage =>
                    \E i \in DOMAIN drains[d].validatedTasks, k \in DOMAIN tasksDb :
                       /\ tasksDb[k].taskId = drains[d].validatedTasks[i].id
                       /\ tasksDb[k].transcriptId # drains[d].jobId
          ELSE /\ jobs[drains[d].jobId].status = "completed"
               /\ transcripts[drains[d].jobId].status = "completed"
               /\ TasksOfJob(drains[d].jobId) =
                    [i \in DOMAIN drains[d].validatedTasks |->
                       TaskDoc(drains[d].validatedTasks[i], drains[d].jobId)]
  /\ \A j \in DOMAIN transcripts :
        transcripts[j].status = "completed" =>
          LET docs == TasksOfJob(j)
              batch == [i \in DOMAIN docs |->
                          GenTask(docs[i].taskId, docs[i].dependencies)]
          IN /\ jobs[j].status = "completed"
             /\ transcripts[j].metadata.taskCount = Len(docs)
             /\ Len(docs) > 0
             /\ \A i \in DOMAIN docs :
                   OnCycle(batch, docs[i].taskId) =>
                     /\ docs[i].status = "error"
                     /\ docs[i].errorMessage = CircularMessage
             /\ transcripts[j].metadata.cyclesDetected <=>
                   \E i \in DOMAIN docs : docs[i].status = "error"

\* C20 witness: a job whose generator output had a dependency cycle and a
\* job whose output had a dangling dependency id have both completed.
AnomalousBatchesCompleted ==
  \E i, j \in DOMAIN transcripts :
     /\ transcripts[i].status = "completed"
     /\ transcripts[i].metadata.cyclesDetected
     /\ \E k \in DOMAIN tasksDb :
          tasksDb[k].transcriptId = i /\ tasksDb[k].status = "error"
     /\ transcripts[j].status = "completed"
     /\ ~transcripts[j].metadata.cyclesDetected
     /\ \E k \in DOMAIN tasksDb :
          tasksDb[k].transcriptId = j /\ tasksDb[k].taskId = "C"
            /\ tasksDb[k].dependencies = <<>>

\* C21: no step changes the status of a Transcript that has status
\* completed: a failure that occurs after the completed write (in a later
\* job or request) does not retract it.
CompletedTranscriptIsFinal ==
  [][ \A j \in DOMAIN transcripts :
        transcripts[j].status = "completed" =>
          (j \in DOMAIN transcripts' /\ transcripts'[j].status = "completed") ]_vars

\* C21 witness: after the first job completed, a persistence call of the
\* second job rejected and that job failed; the first Transcript is still
\* completed.
CompletedKeptAfterLaterFailure ==
  /\ Len(finished) = 2
  /\ transcripts[finished[1]].status = "completed"
  /\ transcripts[finished[2]].status = "failed"
  /\ transcripts[finished[2]].errorMessage = StoredMessage("")
  /\ dbFailures > 0

\* C23: a submit whose Transcript was created is answered 202 with its own
\* jobId from the moment its job is enqueued, whatever the position of the
\* job (queued, in its generator call, finished); a generator failure
\* leaves that answer alone and shows in the Transcript only, which is
\* written failed with the message of the failure (unless that write is
\* itself rejected) and never completed.
SubmitAnsweredBeforeGenerator ==
  /\ \A r \in Requests :
        (requests[r].jobId # NoJob /\ requests[r].jobId \in DOMAIN transcripts) =>
          /\ requests[r].jobId \in DOMAIN jobs
          /\ requests[r].pc = "done"
          /\ requests[r].code = 202
          /\ requests[r].respJobId = requests[r].jobId
          /\ ~requests[r].isDuplicate
  /\ \A j \in genFailed :
        /\ transcripts[j].status \in {"processing", "failed"}
        /\ transcripts[j].status = "failed" =>
             transcripts[j].errorMessage = ExtractionMessage
        /\ (j \in Range(finished) /\ dbFailures = 0) =>
             transcripts[j].status = "failed"
        /\ \A k \in DOMAIN tasksDb : tasksDb[k].transcriptId # j

\* C23 witness: two submits have been answered 202; the generator call of
\* the first failed and its Transcript is failed, the job of the second is
\* still in its generator call.
AnsweredWhileGeneratorRuns ==
  \E r, q \in Requests :
     /\ requests[r].code = 202 /\ requests[q].code = 202
     /\ requests[r].jobId \in genFailed
     /\ transcripts[requests[r].jobId].status = "failed"
     /\ \E d \in DOMAIN drains :
          drains[d].pc = "extract" /\ drains[d].jobId = requests[q].jobId

\* C25: a submit whose text has fewer than 50 characters after trimming is
\* answered 400 and changes nothing but its own response: no Transcript, no
\* job id, no job, no queue entry, no generator call.
ShortTranscriptRejected ==
  [][ \A r \in Requests :
        ( /\ requests[r].pc = "new"
          /\ requests'[r].pc # "new"
          /\ Length(Trim(requests'[r].text)) < MinTranscriptLength )
        => /\ requests'[r].pc = "done"
           /\ requests'[r].code = 400
           /\ requests'[r].jobId = NoJob
           /\ UNCHANGED <<transcripts, tasksDb, jobs, processingQueue,
                          isProcessing, drains, nextJobId, dbFailures,
                          enqueued, genCalls>> ]_vars

\* C25 witness: a text of 50 characters, 49 of them after trimming, was
\* answered 400.
ShortAfterTrimRejected ==
  \E r \in Requests :
     /\ requests[r].pc = "done"
     /\ requests[r].code = 400
     /\ Length(requests[r].text) >= MinTranscriptLength
     /\ Length(Trim(requests[r].text)) < MinTranscriptLength

----------------------------------------------------------------------------
(* Properties of the job queue (SpecQueue) *)

JobTransitions ==
  { <<"pending", "processing">>, <<"processing", "completed">>,
    <<"processing", "failed">> }

\* C18: the status of each Job only moves pending -> processing ->
\* completed or failed.  No job is removed; a job that changes status takes
\* one of these three transitions, so it reaches a terminal status only from
\* processing, never moves backwards and never leaves completed or failed.
\* (enqueueJob creates the job pending; when the worker is idle the same
\* synchronous run takes it from the queue, so a new job is first seen
\* pending or processing.)
JobStateMachine ==
  [][ \A j \in DOMAIN jobs' :
        IF j \in DOMAIN jobs
        THEN \/ jobs'[j].status = jobs[j].status
             \/ <<jobs[j].status, jobs'[j].status>> \in JobTransitions
        ELSE jobs'[j].status \in {"pending", "processing"}
      /\ DOMAIN jobs \subseteq DOMAIN jobs' ]_vars

\* C18 witness: a job that waited pending in the queue has completed and
\* another job has failed.
WaitedJobCompletedOtherFailed ==
  \E i, j \in DOMAIN jobs :
     /\ i \in waited
     /\ jobs[i].status = "completed"
     /\ jobs[j].status = "failed"

\* s is an initial segment of t
IsPrefix(s, t) == Len(s) <= Len(t) /\ \A i \in DOMAIN s : s[i] = t[i]

\* C19: jobs leave the queue in the order they were enqueued and reach
\* their terminal status in that same order: the jobs started are an initial
\* segment of the jobs enqueued, the queue holds the rest in order, the
\* processJob calls settle in the order of the starts, and a job is terminal
\* only when every job enqueued before it is terminal.
FifoOrder ==
  /\ IsPrefix(started, enqueued)
  /\ processingQueue = SubSeq(enqueued, Len(started) + 1, Len(enqueued))
  /\ IsPrefix(finished, started)
  /\ Len(started) <= Len(finished) + 1
  /\ \A i \in DOMAIN finished : jobs[finished[i]].status \in Terminal
  /\ \A i \in DOMAIN enqueued :
        jobs[enqueued[i]].status \in Terminal =>
          \A k \in 1..(i - 1) : jobs[enqueued[k]].status \in Terminal

\* C19 witness: two jobs wait in the queue behind a job that is suspended
\* in its generator call.
TwoQueuedBehindGeneratorCall ==
  /\ Len(processingQueue) = 2
  /\ \E d \in DOMAIN drains : drains[d].pc = "extract"

----------------------------------------------------------------------------
(* Properties of topologicalSort (SpecSort) *)

\* the first position of x in the sequence s, 0 when x is not in s
PositionIn(s, x) ==
  IF x \in Range(s)
  THEN CHOOSE k \in DOMAIN s : s[k] = x /\ \A m \in 1..(k - 1) : s[m] # x
  ELSE 0

\* C15: for an acyclic sanitized batch topologicalSort returns a sequence of
\* the task ids in which every dependency comes before the task that lists
\* it.
SortPutsDependenciesFirst ==
  (gPhase = "sorted" /\ ~HasCycle(gTasks)) =>
    /\ ~gSorted.isNull
    /\ Range(gSorted.order) = TaskIdsOf(gTasks)
    /\ \A i \in DOMAIN gTasks :
         \A v \in Range(gTasks[i].dependencies) :
            PositionIn(gSorted.order, v) < PositionIn(gSorted.order, gTasks[i].id)

\* C16: topologicalSort returns null exactly when the dependency graph of
\* the batch has a directed cycle, wherever the cycle is in the batch.
SortFailsIffCycle ==
  gPhase = "sorted" => (gSorted.isNull <=> HasCycle(gTasks))

\* C16 witness: topologicalSort returned null for a batch whose first task
\* is on no cycle and whose cycle T2 -> T3 -> T2 is in another component.
CycleInLaterComponentSorted ==
  /\ gPhase = "sorted"
  /\ Len(gTasks) = 3
  /\ gTasks[1].dependencies = <<>>
  /\ gTasks[2].dependencies = <<"T3">>
  /\ gTasks[3].dependencies = <<"T2">>
  /\ gSorted.isNull

----------------------------------------------------------------------------
(* Properties of calculateTaskStatuses (SpecCalc) *)

\* C17: calculateTaskStatuses is idempotent: applied with the same
\* completed-set to a batch it has returned, it returns that batch.
CalculateIdempotent ==
  gPhase = "recomputed" =>
    calculateTaskStatuses(gTasks, gCompleted) = gTasks

\* C17 witness: calculateTaskStatuses returned, for a non-empty
\* completed-set, a batch with a blocked task and a ready task that has
\* dependencies.
MixedStatusesRecomputed ==
  /\ gPhase = "recomputed"
  /\ gCompleted # {}
  /\ \E i \in DOMAIN gTasks : gTasks[i].status = "blocked"
  /\ \E i \in DOMAIN gTasks :
        gTasks[i].status = "ready" /\ gTasks[i].dependencies # <<>>

----------------------------------------------------------------------------
(* Properties of the complete-task route (SpecTasks) *)

\* the ids of the documents of transcript t that are completed in db
CompletedIn(db, t) ==
  { db[k].taskId : k \in { m \in DOMAIN db :
                             db[m].transcriptId = t /\ db[m].status = "completed" } }

\* in db every task of transcript t that is neither completed nor error is
\* ready when all its dependency ids are completed and blocked otherwise
ReadinessRecomputed(db, t) ==
  \A k \in DOMAIN db :
     (db[k].transcriptId = t /\ db[k].status \notin {"completed", "error"}) =>
       db[k].status =
         IF Range(db[k].dependencies) \subseteq CompletedIn(db, t)
         THEN "ready" ELSE "blocked"

\* C12: when a complete-task request that no other request was interleaved
\* with is answered 200, its task is completed and every task of the owning
\* transcript that is neither completed nor error is ready if all of its
\* dependency ids are completed and blocked otherwise.
CompleteTaskRecomputesReadiness ==
  [][ \A c \in Completions :
        ( /\ completions[c].pc # "done"
          /\ completions'[c].pc = "done"
          /\ completions'[c].code = 200
          /\ completions'[c].alone )
        => /\ completions'[c].taskId
                \in CompletedIn(tasksDb', completions'[c].transcriptId)
           /\ ReadinessRecomputed(tasksDb', completions'[c].transcriptId) ]_vars

\* C12 witness: an uninterleaved request found a task blocked whose last
\* open dependency it had just completed, and the task is now ready.
BlockedTaskBecameReady ==
  \E c \in Completions :
     /\ completions[c].pc = "done"
     /\ completions[c].code = 200
     /\ completions[c].alone
     /\ \E k \in DOMAIN tasksDb :
          /\ tasksDb[k].taskId \in completions[c].unblocked
          /\ completions[c].taskId \in Range(tasksDb[k].dependencies)
          /\ tasksDb[k].status = "ready"

\* C13: no step changes the status of a Task document that has status
\* error.
ErrorIsTerminal ==
  [][ \A k \in DOMAIN tasksDb :
        tasksDb[k].status = "error" =>
          (k \in DOMAIN tasksDb' /\ tasksDb'[k].status = "error") ]_vars

\* C14: no step changes the status of a Task document that has status
\* completed, however the complete-task requests interleave.
CompletedIsTerminal ==
  [][ \A k \in DOMAIN tasksDb :
        tasksDb[k].status = "completed" =>
          (k \in DOMAIN tasksDb' /\ tasksDb'[k].status = "completed") ]_vars

\* every complete-task request so far ran from its first to its last
\* awaited call without another request in between
Sequential ==
  \A c \in Completions : completions[c].pc = "new" \/ completions[c].alone

\* C29: when complete-task requests run one at a time and no persistence
\* call rejects, no step changes the status of a Task document from ready
\* to blocked.
ReadyNeverBlocked ==
  [][ (Sequential' /\ dbFailures' = 0) =>
        \A k \in DOMAIN tasksDb :
           tasksDb[k].status = "ready" =>
             (k \in DOMAIN tasksDb' /\ tasksDb'[k].status # "blocked") ]_vars

\* C30: every Task document with status completed has only completed
\* documents of its Transcript as dependencies.
CompletedAfterDependencies ==
  \A k \in DOMAIN tasksDb :
     tasksDb[k].status = "completed" =>
       \A m \in DOMAIN tasksDb :
          ( /\ tasksDb[m].transcriptId = tasksDb[k].transcriptId
            /\ tasksDb[m].taskId \in Range(tasksDb[k].dependencies) )
          => tasksDb[m].status = "completed"

\* the stored documents as the batch of tasks they were inserted from, with
\* their present statuses
StoredBatch ==
  [k \in DOMAIN tasksDb |->
     [id |-> tasksDb[k].taskId, dependencies |-> tasksDb[k].dependencies,
      status |-> tasksDb[k].status, errorMessage |-> tasksDb[k].errorMessage]]

\* the ids of the stored documents with status error
StoredErrorIds ==
  { tasksDb[k].taskId : k \in { m \in DOMAIN tasksDb : tasksDb[m].status = "error" } }

\* C26: calculateTaskStatuses returns every task in error state unchanged,
\* whatever the set of completed ids; the write-back list of a complete-task
\* request names no error task, and the only step that changes the status of
\* an error task is the save of a request for that very task.
ErrorTasksSkippedByRecompute ==
  /\ [](LET batch == StoredBatch
            inError == { i \in DOMAIN batch : batch[i].status = "error" }
        IN inError # {} =>
             \A completedTaskIds \in SUBSET TaskIdsOf(batch) :
                LET updatedTasks == calculateTaskStatuses(batch, completedTaskIds)
                IN \A i \in inError : updatedTasks[i] = batch[i])
  /\ [](\A c \in Completions :
          \A i \in DOMAIN completions[c].updates :
             completions[c].updates[i].id \notin StoredErrorIds)
  /\ [][ \A k \in DOMAIN tasksDb :
           (tasksDb[k].status = "error" /\ tasksDb'[k].status # "error") =>
             \E c \in Completions :
                /\ completions[c].pc = "save"
                /\ completions'[c].pc = "findAll"
                /\ completions[c].taskId = tasksDb[k].taskId
                /\ tasksDb'[k].status = "completed" ]_vars

\* C26 witness: a request for a task that is not in error state was answered
\* 200 after it wrote a recomputed status back, and the error tasks of the
\* same Transcript still have status error and their message.
ErrorTasksKeptAcrossRecompute ==
  \E c \in Completions :
     /\ completions[c].pc = "done"
     /\ completions[c].code = 200
     /\ completions[c].alone
     /\ completions[c].taskId \notin StoredErrorIds
     /\ \E k \in DOMAIN tasksDb :
          /\ completions[c].taskId \in Range(tasksDb[k].dependencies)
          /\ tasksDb[k].status = "ready"
     /\ Cardinality(StoredErrorIds) = 2
     /\ \A k \in DOMAIN tasksDb :
          tasksDb[k].status = "error" => tasksDb[k].errorMessage = CircularMessage

\* C31: when complete-task requests for different tasks of the Transcript
\* were interleaved and all are answered 200, no persistence call having
\* rejected, every task that is neither completed nor error is ready if all
\* of its dependency ids are completed and blocked otherwise.
ConcurrentCompletionsRecomputeReadiness ==
  ( /\ dbFailures = 0
    /\ \A c \in Completions : completions[c].pc = "done" /\ completions[c].code = 200
    /\ \E c \in Completions : ~completions[c].alone
    /\ \A c, q \in Completions : c # q => completions[c].taskId # completions[q].taskId )
  => ReadinessRecomputed(tasksDb, 1)

----------------------------------------------------------------------------
(* Further properties of the job queue (SpecQueue) *)

\* the sequence s has no element twice
NoDuplicates(s) == \A i, k \in DOMAIN s : s[i] = s[k] => i = k

\* C22: no retry.  Each jobId is enqueued, taken from the queue and handed
\* to the generator at most once, and a job that has reached failed (or
\* completed) is not in the queue and not in the hands of the worker again.
NoRetry ==
  /\ NoDuplicates(enqueued)
  /\ NoDuplicates(started)
  /\ NoDuplicates(genCalls)
  /\ NoDuplicates(processingQueue)
  /\ \A j \in DOMAIN jobs :
        jobs[j].status \in Terminal =>
          /\ j \notin Range(processingQueue)
          /\ \A d \in DOMAIN drains :
                drains[d].jobId = j => drains[d].pc \in {"markFailed", "loop"}

\* C22 witness: the first job failed in its generator call, later jobs were
\* processed and the worker has gone idle.
IdleAfterFailedJob ==
  /\ WorkerIdle
  /\ Len(finished) >= 2
  /\ finished[1] \in genFailed
  /\ jobs[finished[1]].status = "failed"

\* C24: when every call the worker awaits eventually returns, every
\* enqueued job eventually is completed or failed, and the worker is idle
\* with an empty queue again and again (for good once no submit arrives).
EveryJobTerminates ==
  /\ \A j \in 1..MaxLiveJobs :
        (j \in DOMAIN jobs) ~> (j \in DOMAIN jobs /\ jobs[j].status \in Terminal)
  /\ []<>(WorkerIdle /\ processingQueue = << >>)

\* C24 witness: several jobs were enqueued, one of them while the worker
\* was draining; all are completed or failed, one of each, and the worker
\* is idle with an empty queue.
AllJobsTerminalWorkerIdle ==
  /\ WorkerIdle
  /\ processingQueue = << >>
  /\ Len(enqueued) >= 2
  /\ waited # {}
  /\ \A j \in DOMAIN jobs : jobs[j].status \in Terminal
  /\ \E j \in DOMAIN jobs : jobs[j].status = "completed"
  /\ \E j \in DOMAIN jobs : jobs[j].status = "failed"

----------------------------------------------------------------------------
(* Properties of the job-status route (SpecPoll) *)

NotCompleted == {"pending", "processing", "failed"}

\* C27: a job-status request answers a non-empty task list only when the
\* persisted Transcript has status completed; when the Transcript it loaded
\* or the persisted one is pending, processing or failed, the list in its
\* 200 answer is empty; a request for an unknown jobId is answered 404 (500
\* when Transcript.findOne rejected); and no step of a job-status request
\* changes a Transcript, a Task, the queue or a Job.
PollListsTasksOnlyWhenCompleted ==
  [][ \A p \in Polls :
        polls'[p] # polls[p] =>
          /\ UNCHANGED <<transcripts, tasksDb, jobs, processingQueue,
                         isProcessing, drains, nextJobId, enqueued>>
          /\ polls'[p].pc = "done" =>
               LET r == polls'[p]
               IN /\ r.tasks # << >> =>
                       /\ r.code = 200
                       /\ r.status = "completed"
                       /\ r.jobId \in DOMAIN transcripts
                       /\ transcripts[r.jobId].status = "completed"
                       /\ \A i \in DOMAIN r.tasks : r.tasks[i].transcriptId = r.jobId
                  /\ ( /\ r.code = 200
                       /\ \/ r.status \in NotCompleted
                          \/ transcripts[r.jobId].status \in NotCompleted )
                     => r.tasks = << >>
                  /\ r.code = 200 => r.status = transcripts[r.jobId].status
                  /\ r.jobId \notin DOMAIN transcripts =>
                       \/ r.code = 404
                       \/ r.code = 500 /\ dbFailures' = dbFailures + 1
                  /\ r.code = 404 => r.jobId \notin DOMAIN transcripts ]_vars

\* C27 witness: a job-status request was answered 200 with an empty task
\* list for a Transcript that is not completed although Task documents of
\* that Transcript are stored already.
PolledBeforeCompletedWithTasksStored ==
  \E p \in Polls :
     /\ polls[p].pc = "done"
     /\ polls[p].code = 200
     /\ polls[p].status \in NotCompleted
     /\ polls[p].tasks = << >>
     /\ \E k \in DOMAIN tasksDb : tasksDb[k].transcriptId = polls[p].jobId

----------------------------------------------------------------------------
(* Properties of finished jobs (SpecQueue) *)

\* C32: once the processJob call of a job has settled, the status of the
\* Job in the queue and the status of its persisted Transcript are equal
\* and are completed or failed, also when a persistence call rejected.
FinishedJobMatchesTranscript ==
  \A j \in Range(finished) :
     /\ jobs[j].status \in Terminal
     /\ transcripts[j].status = jobs[j].status

\* C33: once the processJob call of a job has settled, Task documents of
\* its Transcript are stored only if the Transcript has status completed.
TasksOnlyForCompletedTranscript ==
  \A j \in Range(finished) :
     TasksOfJob(j) # << >> => transcripts[j].status = "completed"

====
